---- MODULE Spec2Model ----
(***************************************************************************)
(* Model of scaper.py: the numeric-normalisation helpers, the field        *)
(* extractor parse_listing and the page driver main.                       *)
(*                                                                         *)
(* A Python str is a sequence of one-character strings.  None is the empty *)
(* tuple <<>> and a present value v is the one-element tuple <<v>>.        *)
(***************************************************************************)
EXTENDS Integers, Sequences, FiniteSets

VARIABLES
    pc,         \* position of main: "loop", "fetch", "extract", "sleep", "after", "done"
                \* ("raised": an exception left main; "idle": main is not run)
    pages,      \* argument pages of main
    page_num,   \* loop variable of main (0 before the first iteration)
    offers,     \* fragments found on the page being processed
    idx,        \* position of the inner for loop in offers (1-based)
    all_data,   \* the run-wide accumulator
    fs,         \* the file system as main touches it
    events,     \* history: the session.get and time.sleep calls in the order made
    inp,        \* input of the pure function under check
    out         \* [fn, val]: the pure function applied to inp and its result

vars == <<pc, pages, page_num, offers, idx, all_data, fs, events, inp, out>>

mainVars == <<pc, pages, page_num, offers, idx, all_data, fs, events>>

(***************************************************************************)
(* Bounds                                                                  *)
(***************************************************************************)
MaxPages == 2
MaxOffers == 3
MaxPriceLen == 5
MaxRoomsLen == 6
MaxStatLen == 4
MaxHrefLen == 5

(***************************************************************************)
(* Strings                                                                 *)
(***************************************************************************)
None == <<>>
Some(v) == <<v>>
Unset == [fn |-> "none", val |-> None]
Result(f, v) == [fn |-> f, val |-> v]

Digits == {"0", "1", "2", "3", "4", "5", "6", "7", "8", "9"}

\* characters for which str.isspace() holds and which \s matches
Spaces == {" ", "nbsp"}

DigitVal(c) ==
    CASE c = "0" -> 0 [] c = "1" -> 1 [] c = "2" -> 2 [] c = "3" -> 3
      [] c = "4" -> 4 [] c = "5" -> 5 [] c = "6" -> 6 [] c = "7" -> 7
      [] c = "8" -> 8 [] c = "9" -> 9

\* all strings over alphabet A of length at most n
Str(A, n) == UNION {[1..k -> A] : k \in 0..n}

\* re.IGNORECASE on the letters of the unit token
Lower(c) ==
    CASE c = "P" -> "p" [] c = "O" -> "o" [] c = "K" -> "k" [] OTHER -> c

\* s[i:j] of Python with 1-based i and exclusive end j
Slice(s, i, j) == SubSeq(s, i, j - 1)

\* str.strip()
RECURSIVE LStrip(_)
LStrip(s) ==
    IF s # <<>> /\ Head(s) \in Spaces THEN LStrip(Tail(s)) ELSE s

RECURSIVE RStrip(_)
RStrip(s) ==
    IF s # <<>> /\ s[Len(s)] \in Spaces THEN RStrip(SubSeq(s, 1, Len(s) - 1)) ELSE s

Strip(s) == LStrip(RStrip(s))

\* int(digits) for a non-empty string of decimal digits
RECURSIVE int(_)
int(d) ==
    IF d = <<>> THEN 0 ELSE 10 * int(SubSeq(d, 1, Len(d) - 1)) + DigitVal(d[Len(d)])

\* first index k >= i with s[k] not in set C (Len(s)+1 when there is none):
\* the end of a greedy run C* started at i
RECURSIVE RunEnd(_, _, _)
RunEnd(s, i, C) ==
    IF i <= Len(s) /\ s[i] \in C THEN RunEnd(s, i + 1, C) ELSE i

(***************************************************************************)
(* _clean                                                                  *)
(***************************************************************************)
_clean(s) ==
    IF s = <<>> THEN <<>>
    ELSE Strip([k \in 1..Len(s) |-> IF s[k] = "nbsp" THEN " " ELSE s[k]])

(***************************************************************************)
(* _parse_price                                                            *)
(***************************************************************************)
\* re.sub(r'[^\d]', '', s)
RECURSIVE SubNonDigits(_)
SubNonDigits(s) ==
    IF s = <<>> THEN <<>>
    ELSE IF Head(s) \in Digits THEN <<Head(s)>> \o SubNonDigits(Tail(s))
    ELSE SubNonDigits(Tail(s))

\* a plausible slip: n >= 0 in place of n > 0
PriceAcceptsZero(s) ==
    IF s = <<>> THEN None
    ELSE LET digits == SubNonDigits(s) IN
         IF digits = <<>> THEN None
         ELSE LET n == int(digits) IN IF n >= 0 THEN Some(n) ELSE None

_parse_price(s) ==
    IF s = <<>> THEN None
    ELSE LET digits == SubNonDigits(s) IN
         IF digits = <<>> THEN None
         ELSE LET n == int(digits) IN IF n > 0 THEN Some(n) ELSE None

(***************************************************************************)
(* _parse_area                                                             *)
(***************************************************************************)
\* s.replace(',', '.')
CommaToDot(s) == [k \in 1..Len(s) |-> IF s[k] = "," THEN "." ELSE s[k]]

\* re.search(r'[\d.]+', s): the leftmost, longest run of digits and points,
\* None when s holds no such character
SearchNumber(s) ==
    LET C == Digits \cup {"."}
        starts == {i \in 1..Len(s) : s[i] \in C}
    IN IF starts = {} THEN None
       ELSE LET i == CHOOSE x \in starts : \A y \in starts : x <= y
            IN Some(Slice(s, i, RunEnd(s, i, C)))

\* trailing zeros of a fraction do not change the float
RECURSIVE DropTrailingZeros(_)
DropTrailingZeros(d) ==
    IF d # <<>> /\ d[Len(d)] = "0" THEN DropTrailingZeros(SubSeq(d, 1, Len(d) - 1)) ELSE d

\* float(g) for a string g of digits and points: ValueError (None here) unless
\* g holds at most one point and at least one digit; the value is the decimal
\* mant / 10^scale in lowest decimal form
float(g) ==
    LET points == {i \in 1..Len(g) : g[i] = "."}
    IN IF Cardinality(points) > 1 \/ Len(g) = Cardinality(points) THEN None
       ELSE LET p    == IF points = {} THEN Len(g) + 1 ELSE CHOOSE i \in points : TRUE
                ip   == Slice(g, 1, p)
                fp   == DropTrailingZeros(Slice(g, p + 1, Len(g) + 1))
            IN Some([mant |-> int(ip \o fp), scale |-> Len(fp)])

\* a plausible slip: the sign test dropped
AreaAcceptsZero(s) ==
    IF s = <<>> THEN None
    ELSE LET m == SearchNumber(CommaToDot(s)) IN
         IF m = None THEN None
         ELSE float(m[1])

_parse_area(s) ==
    IF s = <<>> THEN None
    ELSE LET m == SearchNumber(CommaToDot(s)) IN
         IF m = None THEN None
         ELSE LET n == float(m[1]) IN
              IF n = None THEN None
              ELSE IF n[1].mant > 0 THEN n ELSE None

(***************************************************************************)
(* _parse_rooms                                                            *)
(***************************************************************************)
\* the literal pok of both patterns at index c, under re.IGNORECASE
UnitAt(s, c) ==
    /\ c + 2 <= Len(s)
    /\ Lower(s[c]) = "p"
    /\ Lower(s[c + 1]) = "o"
    /\ Lower(s[c + 2]) = "k"

\* re.search(r'^\s*(\d+)\s*(?:pok\.?)?\s*$', t, re.IGNORECASE): group 1 or None.
\* Every quantifier is followed by a character class disjoint from its own, so
\* the greedy scan below takes the only path on which the pattern can match.
WholeMatch(t) ==
    LET a == RunEnd(t, 1, Spaces)
        b == RunEnd(t, a, Digits)
        c == RunEnd(t, b, Spaces)
        d == IF UnitAt(t, c) THEN c + 3 ELSE c
        e == IF d > c /\ d <= Len(t) /\ t[d] = "." THEN d + 1 ELSE d
        f == RunEnd(t, e, Spaces)
    IN IF b > a /\ f = Len(t) + 1 THEN Some(Slice(t, a, b)) ELSE None

\* re.search(r'(\d+)\s*pok', s, re.IGNORECASE): group 1 of the leftmost match
FallbackMatch(s) ==
    LET hit(i) == /\ s[i] \in Digits
                  /\ UnitAt(s, RunEnd(s, RunEnd(s, i, Digits), Spaces))
        starts == {i \in 1..Len(s) : hit(i)}
    IN IF starts = {} THEN None
       ELSE LET i == CHOOSE x \in starts : \A y \in starts : x <= y
            IN Some(Slice(s, i, RunEnd(s, i, Digits)))

\* a plausible slip: the substring fallback left out
RoomsNoFallback(s) ==
    IF s = <<>> THEN None
    ELSE LET m == WholeMatch(Strip(s)) IN
         IF m = None THEN None
         ELSE LET n == int(m[1]) IN IF n > 0 THEN Some(n) ELSE None

_parse_rooms(s) ==
    IF s = <<>> THEN None
    ELSE LET m1 == WholeMatch(Strip(s))
             m  == IF m1 = None THEN FallbackMatch(s) ELSE m1
         IN IF m = None THEN None
            ELSE LET n == int(m[1]) IN IF n > 0 THEN Some(n) ELSE None

(***************************************************************************)
(* parse_listing                                                           *)
(*                                                                         *)
(* A listing fragment (offer) is a record of what the selectors find:      *)
(*   data_id  the data-id attribute, None when absent                      *)
(*   stats    the p.flex-auto... elements in order, each the text of its   *)
(*            span.font-bold or None when it has none                      *)
(*   href     the href of the first a[href], None when there is none       *)
(*   location, street, desc   the text of the element, None when absent    *)
(*   marker   whether the lowercased text holds the marker phrase          *)
(*   raises   whether anything in the try block raises an Exception        *)
(***************************************************************************)
BASE_URL ==
    <<"h", "t", "t", "p", "s", ":", "/", "/",
      "a", "d", "r", "e", "s", "o", "w", "o", ".", "p", "l">>

Http == <<"h", "t", "t", "p">>

Mieszkanie == <<"M", "i", "e", "s", "z", "k", "a", "n", "i", "e">>
Tak == <<"T", "a", "k">>
Nie == <<"N", "i", "e">>

\* str.startswith
StartsWith(s, prefix) ==
    Len(s) >= Len(prefix) /\ SubSeq(s, 1, Len(prefix)) = prefix

\* _clean(bold.get_text()) if bold else '' for the stat element at position k,
\* '' when there are fewer than k stat elements
StatText(stats, k) ==
    IF Len(stats) >= k /\ stats[k] # None THEN _clean(stats[k][1]) ELSE <<>>

\* _clean(el.get_text()) if el else ''
ElementText(el) == IF el # None THEN _clean(el[1]) ELSE <<>>

\* lines 113-117
Link(href) ==
    IF href # None /\ href[1] # <<>>
    THEN IF ~StartsWith(href[1], Http) THEN BASE_URL \o href[1] ELSE href[1]
    ELSE <<>>

\* x if x is not None else ''
Cell(x) == IF x # None THEN x ELSE <<>>

\* offer.get('data-id', '')
Attr(x) == IF x # None THEN x[1] ELSE <<>>

\* lines 91-148: the list parse_listing returns when nothing raises
Row(offer) ==
    <<Attr(offer.data_id),
      Cell(_parse_price(StatText(offer.stats, 1))),
      Cell(_parse_area(StatText(offer.stats, 2))),
      Cell(_parse_rooms(StatText(offer.stats, 3))),
      ElementText(offer.location),
      ElementText(offer.street),
      Mieszkanie,
      IF offer.marker THEN Tak ELSE Nie,
      ElementText(offer.desc),
      Link(offer.href)>>

\* a plausible slip: the except clause missing, so the exception reaches the caller
ParseListingNoCatch(offer) ==
    IF offer.raises THEN [kind |-> "raised", row |-> <<>>]
    ELSE [kind |-> "row", row |-> Row(offer)]

\* the outcome of the call: kind "row" with the list, kind "None" for the
\* except branch (kind "raised" would be an exception leaving the function)
parse_listing(offer) ==
    IF offer.raises THEN [kind |-> "None", row |-> <<>>]
    ELSE [kind |-> "row", row |-> Row(offer)]

(***************************************************************************)
(* main                                                                    *)
(***************************************************************************)
CSV_HEADERS ==
    <<"ID", "Cena", "Metraz", "Pokoje", "Lokalizacja", "Ulica", "Typ",
      "Bez Posrednikow", "Opis", "Link">>

NoFile == [dir_made |-> FALSE, opened |-> FALSE, rows |-> <<>>, error |-> FALSE]

DigitChar(n) == CHOOSE c \in Digits : DigitVal(c) = n

\* the i-th card of page p as the site shows it: its data-id names the page
\* and the position, its rooms stat reads 0; with raises, a card on which the
\* extraction raises
CardAt(p, i, raises) ==
    [data_id  |-> Some(<<DigitChar(p), DigitChar(i)>>),
     stats    |-> <<Some(<<"6", "3", "5", "nbsp", "0", "0", "0", " ", "z", "l">>),
                    Some(<<"5", "0", ",", "2", "5", " ", "m", "sup2">>),
                    Some(<<"0">>)>>,
     href     |-> Some(<<"/", "o", "/", DigitChar(i)>>),
     location |-> Some(<<"L", "o", "d", "z">>),
     street   |-> Some(<<" ", "u", "l", " ">>),
     desc     |-> None,
     marker   |-> TRUE,
     raises   |-> raises]

\* what soup.find_all can return: up to MaxOffers cards, each extractable
\* (FALSE) or raising (TRUE)
PageShapes == Str(BOOLEAN, MaxOffers)

\* the cards of page p with the given shape
PageContents(p, shape) == [i \in 1..Len(shape) |-> CardAt(p, i, shape[i])]

FetchEvent(p, ok, frags) == [kind |-> "fetch", page |-> p, ok |-> ok, frags |-> frags]
SleepEvent == [kind |-> "sleep", page |-> 0, ok |-> TRUE, frags |-> <<>>]

\* lines 164-168
Init ==
    /\ pc = "loop"
    /\ pages \in (0 - 1)..MaxPages
    /\ page_num = 0
    /\ offers = <<>>
    /\ idx = 0
    /\ all_data = <<>>
    /\ fs = NoFile
    /\ events = <<>>
    /\ inp = <<>>
    /\ out = Unset

\* line 170: the next value of range(1, pages + 1), or the end of the loop
LoopNext ==
    /\ pc = "loop"
    /\ IF page_num + 1 <= pages
       THEN page_num' = page_num + 1 /\ pc' = "fetch"
       ELSE page_num' = page_num /\ pc' = "after"
    /\ UNCHANGED <<pages, offers, idx, all_data, fs, events, inp, out>>

\* a plausible slip: the empty page does not end the loop
FetchOKNoBreak(shape) ==
    /\ pc = "fetch"
    /\ offers' = PageContents(page_num, shape)
    /\ events' = Append(events, FetchEvent(page_num, TRUE, offers'))
    /\ IF shape = <<>>
       THEN pc' = "sleep" /\ idx' = idx
       ELSE pc' = "extract" /\ idx' = 1
    /\ UNCHANGED <<pages, page_num, all_data, fs, inp, out>>

\* lines 175-187: the request succeeds and the page holds cards of the given shape
FetchOK(shape) ==
    /\ pc = "fetch"
    /\ offers' = PageContents(page_num, shape)
    /\ events' = Append(events, FetchEvent(page_num, TRUE, offers'))
    /\ IF shape = <<>>
       THEN pc' = "after" /\ idx' = idx
       ELSE pc' = "extract" /\ idx' = 1
    /\ UNCHANGED <<pages, page_num, all_data, fs, inp, out>>

\* a plausible slip: break in place of continue
FetchFailBreaks ==
    /\ pc = "fetch"
    /\ events' = Append(events, FetchEvent(page_num, FALSE, <<>>))
    /\ pc' = "after"
    /\ UNCHANGED <<pages, page_num, offers, idx, all_data, fs, inp, out>>

\* a plausible slip: the pause taken in the except branch too
FetchFailSleeps ==
    /\ pc = "fetch"
    /\ events' = Append(events, FetchEvent(page_num, FALSE, <<>>))
    /\ pc' = "sleep"
    /\ UNCHANGED <<pages, page_num, offers, idx, all_data, fs, inp, out>>

\* lines 175-176, 196-198: session.get or raise_for_status raises a RequestException
FetchFail ==
    /\ pc = "fetch"
    /\ events' = Append(events, FetchEvent(page_num, FALSE, <<>>))
    /\ pc' = "loop"
    /\ UNCHANGED <<pages, page_num, offers, idx, all_data, fs, inp, out>>

\* a plausible slip: insert(0, row) in place of append(row)
ExtractPrepends ==
    /\ pc = "extract"
    /\ LET row == parse_listing(offers[idx]) IN
       /\ all_data' = IF row.kind = "row" THEN <<row.row>> \o all_data ELSE all_data
       /\ pc' = IF row.kind = "raised" THEN "raised"
                ELSE IF idx = Len(offers) THEN "sleep" ELSE "extract"
    /\ idx' = idx + 1
    /\ UNCHANGED <<pages, page_num, offers, fs, events, inp, out>>

\* lines 189-192: one iteration of the inner loop.  A list of ten cells is
\* truthy, so "if row" is "row is not None".  An exception leaving
\* parse_listing is no RequestException and would leave main.
Extract ==
    /\ pc = "extract"
    /\ LET row == parse_listing(offers[idx]) IN
       /\ all_data' = IF row.kind = "row" THEN Append(all_data, row.row) ELSE all_data
       /\ pc' = IF row.kind = "raised" THEN "raised"
                ELSE IF idx = Len(offers) THEN "sleep" ELSE "extract"
    /\ idx' = idx + 1
    /\ UNCHANGED <<pages, page_num, offers, fs, events, inp, out>>

\* line 194
Sleep ==
    /\ pc = "sleep"
    /\ events' = Append(events, SleepEvent)
    /\ pc' = "loop"
    /\ UNCHANGED <<pages, page_num, offers, idx, all_data, fs, inp, out>>

\* lines 214-215
NothingCollected ==
    /\ pc = "after"
    /\ all_data = <<>>
    /\ pc' = "done"
    /\ UNCHANGED <<pages, page_num, offers, idx, all_data, fs, events, inp, out>>

WriteOutcomes == {"ok", "makedirs", "open", "write"}

\* what lines 203-213 leave behind; has_dir tells whether
\* os.path.dirname(output_file) is non-empty.  "ok": no call raises.
\* "makedirs", "open", "write": that call raises an IOError, which is caught.
\* rows is the content of a file written to the end; a failed write leaves
\* the file opened (truncated) with some proper prefix of the content, which
\* rows does not record.
Written(has_dir, outcome) ==
    CASE outcome = "ok" ->
           [dir_made |-> has_dir, opened |-> TRUE,
            rows |-> <<CSV_HEADERS>> \o all_data, error |-> FALSE]
      [] outcome = "makedirs" ->
           [dir_made |-> FALSE, opened |-> FALSE, rows |-> <<>>, error |-> TRUE]
      [] outcome = "open" ->
           [dir_made |-> has_dir, opened |-> FALSE, rows |-> <<>>, error |-> TRUE]
      [] outcome = "write" ->
           [dir_made |-> has_dir, opened |-> TRUE, rows |-> <<>>, error |-> TRUE]

\* a plausible slip: the test of the accumulator missing
WriteCsvAlways(has_dir, outcome) ==
    /\ pc = "after"
    /\ outcome = "makedirs" => has_dir
    /\ fs' = Written(has_dir, outcome)
    /\ pc' = "done"
    /\ UNCHANGED <<pages, page_num, offers, idx, all_data, events, inp, out>>

\* lines 200-213
WriteCsv(has_dir, outcome) ==
    /\ pc = "after"
    /\ all_data # <<>>
    /\ outcome = "makedirs" => has_dir
    /\ fs' = Written(has_dir, outcome)
    /\ pc' = "done"
    /\ UNCHANGED <<pages, page_num, offers, idx, all_data, events, inp, out>>

Next ==
    \/ LoopNext
    \/ \E shape \in PageShapes : FetchOK(shape)
    \/ FetchFail
    \/ Extract
    \/ Sleep
    \/ NothingCollected
    \/ \E has_dir \in BOOLEAN : \E outcome \in WriteOutcomes : WriteCsv(has_dir, outcome)

Spec == Init /\ [][Next]_vars

(***************************************************************************)
(* Pure-function specifications: the input is drawn in Init, one action    *)
(* applies the function.  main stays idle.                                 *)
(***************************************************************************)
MainIdle ==
    /\ pc = "idle"
    /\ pages = 0
    /\ page_num = 0
    /\ offers = <<>>
    /\ idx = 0
    /\ all_data = <<>>
    /\ fs = NoFile
    /\ events = <<>>

PriceAlphabet == {"0", "6", " ", "z"}

InitPrice ==
    /\ MainIdle
    /\ inp \in Str(PriceAlphabet, MaxPriceLen)
    /\ out = Unset

ApplyPrice ==
    /\ out.fn = "none"
    /\ out' = Result("price", _parse_price(inp))
    /\ UNCHANGED <<mainVars, inp>>

SpecPrice == InitPrice /\ [][ApplyPrice]_vars

RoomsAlphabet == {"0", "3", " ", "p", "O", "k", "."}

InitRooms ==
    /\ MainIdle
    /\ inp \in Str(RoomsAlphabet, MaxRoomsLen)
    /\ out = Unset

ApplyRooms ==
    /\ out.fn = "none"
    /\ out' = Result("rooms", _parse_rooms(inp))
    /\ UNCHANGED <<mainVars, inp>>

SpecRooms == InitRooms /\ [][ApplyRooms]_vars

StatAlphabet == {"0", "5", ",", ".", " ", "p", "o", "k"}
HrefAlphabet == {"h", "t", "p", ":", "/", "f"}

Lodz == <<"L", "o", "d", "z">>

\* a fragment with the given stat elements and link and nothing else of note
Offer(stats, href, raises) ==
    [data_id |-> Some(<<"7">>), stats |-> stats, href |-> href,
     location |-> Some(Lodz), street |-> None, desc |-> None,
     marker |-> FALSE, raises |-> raises]

\* fragments whose k stat elements (k <= 3) all show the text s, or lack the bold child
StatOffers ==
    {Offer([i \in 1..k |-> Some(s)], None, FALSE) :
        k \in 0..3, s \in Str(StatAlphabet, MaxStatLen)}
    \cup {Offer(<<None, None, None>>, None, r) : r \in BOOLEAN}

\* fragments without stats, with and without a link
LinkOffers ==
    {Offer(<<>>, h, FALSE) :
        h \in {None} \cup {Some(s) : s \in Str(HrefAlphabet, MaxHrefLen)}}

InitListing ==
    /\ MainIdle
    /\ inp \in StatOffers \cup LinkOffers
    /\ out = Unset

ApplyListing ==
    /\ out.fn = "none"
    /\ out' = Result("listing", parse_listing(inp))
    /\ UNCHANGED <<mainVars, inp>>

SpecListing == InitListing /\ [][ApplyListing]_vars


(***************************************************************************)
(* Claims about main                                                       *)
(***************************************************************************)
Fetches == SelectSeq(events, LAMBDA e : e.kind = "fetch")

LoopEnded == pc \in {"after", "done"}

\* the fetches that succeeded and found no fragment
EmptyPages(F) == {i \in 1..Len(F) : F[i].ok /\ F[i].frags = <<>>}

\* the data-ids of the fragments of fr on which the extraction does not raise,
\* in order; no two fragments of a run share a data-id
RECURSIVE IdsOf(_)
IdsOf(fr) ==
    IF fr = <<>> THEN <<>>
    ELSE (IF Head(fr).raises THEN <<>> ELSE <<Attr(Head(fr).data_id)>>) \o IdsOf(Tail(fr))

\* the ID column of rows
IdColumn(rows) == [i \in 1..Len(rows) |-> rows[i][1]]

\* the fragments of the successfully fetched pages, in page order
RECURSIVE FragmentsOf(_)
FragmentsOf(F) ==
    IF F = <<>> THEN <<>> ELSE Head(F).frags \o FragmentsOf(Tail(F))

\* C1: pages are fetched in increasing order from 1, each at most once and none
\* beyond pages; a successful fetch that finds no fragment is the last fetch;
\* when the loop has ended without such a fetch every page 1..pages was
\* fetched; the records of the earlier pages are kept (one row per fragment
\* extracted, told by its ID).
C1_FetchPlan ==
    LET F == Fetches
        stops == EmptyPages(F)
    IN /\ \A i \in 1..Len(F) : F[i].page = i /\ i <= pages
       /\ \A i \in stops : i = Len(F)
       /\ (LoopEnded /\ stops = {}) => Len(F) = (IF pages > 0 THEN pages ELSE 0)
       /\ LoopEnded => IdColumn(all_data) = IdsOf(FragmentsOf(F))
       /\ (/\ pc = "done" /\ Len(F) >= 2
           /\ F[1].ok /\ Len(F[1].frags) = 3 /\ \A i \in 1..3 : ~F[1].frags[i].raises
           /\ F[2].ok /\ F[2].frags = <<>>) =>
              Len(F) = 2 /\ Len(all_data) = 3

\* page 1 with three well-formed fragments, page 2 with none, the file written
C1_Witness ==
    /\ pc = "done"
    /\ pages = 2
    /\ Len(Fetches) = 2
    /\ Fetches[1].ok /\ Len(Fetches[1].frags) = 3
    /\ \A i \in 1..3 : ~Fetches[1].frags[i].raises
    /\ Fetches[2].ok /\ Fetches[2].frags = <<>>
    /\ fs.opened /\ ~fs.error /\ Len(fs.rows) = 4

\* C2: a failed fetch leaves the accumulator as it was and does not end the
\* run; the failed page is not fetched again, the loop does not stop early
\* because of it, and when it is not the last page the next fetch is for the
\* page after it.
C2_FetchFailureSkipsPage ==
    /\ [](LET F == Fetches IN
          /\ pc # "raised"
          /\ \A i \in 1..Len(F) :
                ~F[i].ok =>
                   /\ i < Len(F) => F[i + 1].page = F[i].page + 1
                   /\ (LoopEnded /\ F[i].page < pages) => i < Len(F))
    /\ [][(Len(events') > Len(events) /\ ~events'[Len(events')].ok)
             => all_data' = all_data]_vars

\* page 1 failed, page 2 was fetched next
C2_Witness ==
    /\ Len(events) = 2
    /\ events[1].kind = "fetch" /\ ~events[1].ok /\ events[1].page = 1
    /\ events[2].kind = "fetch" /\ events[2].page = 2

\* the fragments handed to parse_listing so far: those of the pages fetched
\* successfully, less the ones the inner loop has not reached yet
Processed ==
    LET all == FragmentsOf(Fetches)
        todo == IF pc = "extract" THEN Len(offers) - (idx - 1) ELSE 0
    IN SubSeq(all, 1, Len(all) - todo)

\* C3: the accumulator holds at every point one row for each fragment
\* processed so far whose extraction succeeded, in page order and then in-page
\* order; it changes only by the row of the fragment just extracted being
\* appended.
C3_AccumulatorIsConcatenation ==
    /\ [](IdColumn(all_data) = IdsOf(Processed))
    /\ [][\/ all_data' = all_data
          \/ /\ pc = "extract"
             /\ ~offers[idx].raises
             /\ all_data' = Append(all_data, Row(offers[idx]))]_vars

\* rows of two pages, a failing fragment between them
C3_Witness ==
    /\ Len(all_data) = 3
    /\ all_data[1][1] = <<"1", "1">>
    /\ all_data[2][1] = <<"1", "3">>
    /\ all_data[3][1] = <<"2", "1">>

\* C4 as amended: nothing is written before the page loop has ended; a write is
\* attempted exactly when the accumulator is non-empty; an attempt in which no
\* call raises leaves the header once followed by every accumulated record in
\* accumulator order; with an empty accumulator no directory is created and no
\* file is opened or modified.
C4_WriteAfterLoop ==
    /\ pc # "done" => fs = NoFile
    /\ pc = "done" =>
          IF all_data = <<>> THEN fs = NoFile
          ELSE /\ fs.opened \/ fs.error
               /\ ~fs.error => fs.opened /\ fs.rows = <<CSV_HEADERS>> \o all_data

C4_Witness ==
    /\ pc = "done"
    /\ Len(all_data) = 2
    /\ ~fs.error
    /\ fs.dir_made
    /\ fs.rows = <<CSV_HEADERS>> \o all_data

\* C4 as stated: the file is written if and only if the accumulator is
\* non-empty, and then holds the header followed by every accumulated record.
C4_Original ==
    /\ pc # "done" => fs = NoFile
    /\ pc = "done" =>
          IF all_data = <<>> THEN fs = NoFile
          ELSE fs.opened /\ fs.rows = <<CSV_HEADERS>> \o all_data

\* C9: no exception leaves the extraction of a fragment; a failing fragment
\* adds no row, every other fragment of its page is still extracted and its
\* row appended, and the loop goes on to the next page.
C9_ExtractionFailureIsolated ==
    /\ [](/\ pc # "raised"
          /\ pc = "sleep" =>
                LET ids == IdsOf(offers) IN
                /\ idx = Len(offers) + 1
                /\ Len(all_data) >= Len(ids)
                /\ SubSeq(IdColumn(all_data), Len(all_data) - Len(ids) + 1, Len(all_data)) = ids
          /\ LET F == Fetches IN
             \A i \in 1..Len(F) :
                (LoopEnded /\ F[i].ok /\ F[i].frags # <<>> /\ F[i].page < pages)
                   => i < Len(F))
    /\ [][(pc = "extract" /\ offers[idx].raises)
             => (all_data' = all_data /\ idx' = idx + 1 /\ pc' \in {"extract", "sleep"})]_vars

\* a page whose middle fragment fails: the fragments around it gave their rows
\* and the next page is being fetched
C9_Witness ==
    /\ pc = "fetch"
    /\ page_num = 2
    /\ Len(offers) = 3
    /\ ~offers[1].raises /\ offers[2].raises /\ ~offers[3].raises
    /\ Len(all_data) = 2

IsFullPage(e) == e.kind = "fetch" /\ e.ok /\ e.frags # <<>>

\* C10 as amended: the loop sleeps exactly once after each successfully
\* fetched page that held fragments, once they are processed, the last page
\* included, and at no other point: no sleep follows a failed fetch or an
\* empty page.
C10_SleepAfterFullPage ==
    /\ \A i \in 1..Len(events) :
          events[i].kind = "sleep" => (i > 1 /\ IsFullPage(events[i - 1]))
    /\ \A i \in 1..Len(events) :
          IsFullPage(events[i]) =>
             /\ i < Len(events) => events[i + 1].kind = "sleep"
             /\ (LoopEnded \/ pc = "loop") => i < Len(events)
             /\ i = Len(events) => pc \in {"extract", "sleep"}

\* a sleep after the last page, and none after the failed page
C10_Witness ==
    /\ pc = "done"
    /\ Len(events) = 3
    /\ events[1].kind = "fetch" /\ ~events[1].ok
    /\ IsFullPage(events[2])
    /\ events[3].kind = "sleep"

\* C10 as stated: between two consecutive fetches exactly one sleep, whether
\* the earlier succeeded or failed, and no sleep anywhere else.
C10_Original ==
    /\ \A i \in 1..(Len(events) - 1) : events[i].kind # events[i + 1].kind
    /\ events # <<>> => events[1].kind = "fetch"
    /\ (LoopEnded /\ events # <<>>) => events[Len(events)].kind = "fetch"

(***************************************************************************)
(* Claims about the numeric helpers                                        *)
(***************************************************************************)
RECURSIVE Pow10(_)
Pow10(k) == IF k = 0 THEN 1 ELSE 10 * Pow10(k - 1)

\* the integer a digit string denotes, by place value
RECURSIVE PlaceSum(_, _)
PlaceSum(d, i) ==
    IF i > Len(d) THEN 0
    ELSE DigitVal(d[i]) * Pow10(Len(d) - i) + PlaceSum(d, i + 1)

Denoted(d) == PlaceSum(d, 1)

Ex_635_000_zl == <<"6", "3", "5", " ", "0", "0", "0", " ", "z", "l">>
Ex_0_zl == <<"0", " ", "z", "l">>
Ex_zl == <<"z", "l">>

\* C6: _parse_price(s) is the positive integer denoted by the digits of s, taken
\* in their order with every other character dropped, and absent when s is
\* empty, holds no digit or its digits denote zero.
C6_PriceDigits ==
    /\ out.fn = "price" =>
          LET d == SelectSeq(inp, LAMBDA ch : ch \in Digits)
          IN out.val = IF d # <<>> /\ Denoted(d) > 0 THEN Some(Denoted(d)) ELSE None
    /\ _parse_price(Ex_635_000_zl) = Some(635000)
    /\ _parse_price(Ex_0_zl) = None
    /\ _parse_price(<<>>) = None
    /\ _parse_price(Ex_zl) = None

C6_Witness ==
    /\ out.fn = "price"
    /\ inp = <<"6", " ", "0", "z">>
    /\ out.val = Some(60)

\* the characters s[i..j-1] are all in C
AllIn(s, i, j, C) == \A x \in i..(j - 1) : s[x] \in C

\* s[k..l-1] is empty, pok or pok. (any letter case)
IsUnitToken(s, k, l) ==
    \/ l = k
    \/ l = k + 3 /\ UnitAt(s, k)
    \/ l = k + 4 /\ UnitAt(s, k) /\ s[k + 3] = "."

\* the integers d for which t reads: spaces, d, spaces, optional unit token, spaces
WholeForms(t) ==
    LET n == Len(t) + 1 IN
    UNION {{Slice(t, i, j) : j \in
               {y \in (i + 1)..n :
                   /\ AllIn(t, i, y, Digits)
                   /\ \E k \in y..n : \E l \in k..n :
                         /\ AllIn(t, y, k, Spaces)
                         /\ IsUnitToken(t, k, l)
                         /\ AllIn(t, l, n, Spaces)}} :
           i \in {x \in 1..n : AllIn(t, 1, x, Spaces)}}

\* the places <<i, j>> where an integer s[i..j-1] is followed, after optional
\* spaces, by the unit token
FallbackPlaces(s) ==
    LET n == Len(s) + 1 IN
    UNION {{<<i, j>> : j \in
               {y \in (i + 1)..n :
                   /\ AllIn(s, i, y, Digits)
                   /\ \E k \in y..n : AllIn(s, y, k, Spaces) /\ UnitAt(s, k)}} :
           i \in 1..n}

Positive(n) == IF n > 0 THEN Some(n) ELSE None

Ex_3 == <<"3">>
Ex_3_pok_dot == <<"3", " ", "p", "o", "k", ".">>
Ex_3_pok == <<"3", " ", "p", "o", "k">>
Ex_kawalerka == <<"k", "a", "w", "a", "l", "e", "r", "k", "a">>
Ex_13_pok_extra == <<"1", "3", " ", "p", "o", "k", " ", "e", "x", "t", "r", "a">>

\* C7: _parse_rooms(s) returns the integer of the whole-string form when the
\* stripped s has that form, else the integer of the leftmost place where an
\* integer precedes the unit token; the integer is returned when positive and
\* the result is absent otherwise, so a whole-string zero stays absent.
C7_RoomsTwoStage ==
    /\ out.fn = "rooms" =>
          LET whole == WholeForms(Strip(inp))
              places == FallbackPlaces(inp)
          IN IF inp = <<>> THEN out.val = None
             ELSE IF whole # {}
             THEN \A d \in whole : out.val = Positive(Denoted(d))
             ELSE IF places # {}
             THEN LET first == CHOOSE p \in places :
                                  \A q \in places :
                                     p[1] < q[1] \/ (p[1] = q[1] /\ p[2] >= q[2])
                  IN out.val = Positive(Denoted(Slice(inp, first[1], first[2])))
             ELSE out.val = None
    \* the documented examples do not depend on the state: they are
    \* evaluated in the states of the empty input only
    /\ inp = <<>> =>
          /\ _parse_rooms(Ex_3) = Some(3)
          /\ _parse_rooms(Ex_3_pok_dot) = Some(3)
          /\ _parse_rooms(Ex_3_pok) = Some(3)
          /\ _parse_rooms(Ex_kawalerka) = None
          /\ _parse_rooms(<<"0">>) = None
          /\ _parse_rooms(Ex_13_pok_extra) = Some(13)

\* the fallback decides: the stripped input is not of the whole-string form
C7_Witness ==
    /\ out.fn = "rooms"
    /\ inp = <<".", "3", " ", "p", "O", "k">>
    /\ out.val = Some(3)

(***************************************************************************)
(* Claims about parse_listing                                              *)
(***************************************************************************)
\* C5: in every record parse_listing returns, each of price, area and rooms is
\* an empty cell or strictly positive, whatever the stat texts were.
C5_NumericPositive ==
    (out.fn = "listing" /\ out.val.kind = "row") =>
        LET row == out.val.row IN
        /\ row[2] = <<>> \/ row[2][1] > 0
        /\ row[3] = <<>> \/ row[3][1].mant > 0
        /\ row[4] = <<>> \/ row[4][1] > 0

\* a stat text whose digits denote zero, shown in all three stat elements
C5_Witness ==
    /\ out.fn = "listing"
    /\ inp.stats = <<Some(<<"0", ",", "0">>), Some(<<"0", ",", "0">>), Some(<<"0", ",", "0">>)>>
    /\ out.val.kind = "row"
    /\ out.val.row[2] = <<>> /\ out.val.row[3] = <<>> /\ out.val.row[4] = <<>>

Alpha == {"h", "t", "p", "f", "s", "a", "d", "r", "e", "o", "w", "l"}

\* s starts with a URL scheme: a letter, then letters, digits, +, - or ., then a colon
HasScheme(s) ==
    \E k \in 2..Len(s) :
        /\ s[k] = ":"
        /\ s[1] \in Alpha
        /\ \A x \in 2..(k - 1) : s[x] \in Alpha \cup Digits \cup {"+", "-", "."}

Ex_oferta_123 == <<"/", "o", "f", "e", "r", "t", "a", "/", "1", "2", "3">>

\* C8: the link of every record is empty or an absolute URL; a reference that
\* does not start with a scheme is prefixed with the base URL and a reference
\* that starts with a scheme is passed through unchanged.
C8_LinkAbsolute ==
    /\ (out.fn = "listing" /\ out.val.kind = "row") =>
          LET link == out.val.row[10]
              href == inp.href
          IN /\ link = <<>> \/ HasScheme(link)
             /\ href = None => link = <<>>
             /\ (href # None /\ href[1] # <<>> /\ ~HasScheme(href[1])) =>
                    link = BASE_URL \o href[1]
             /\ (href # None /\ HasScheme(href[1])) => link = href[1]
    /\ Link(Some(Ex_oferta_123)) = BASE_URL \o Ex_oferta_123

====
